---- MODULE Spec2Model ----
(***************************************************************************)
(* State-machine model of src/script.js, the single-page to-do list.       *)
(*                                                                         *)
(* Strings are sequences of one-character strings, so that trim(), split() *)
(* and the JSON text kept in localStorage are computed, not assumed.  The  *)
(* JSON text is modelled after lexing: a sequence of tokens, each token a  *)
(* sequence of characters (a string literal keeps its quotes and its       *)
(* escapes).  Instants are minutes since the epoch (JavaScript counts      *)
(* milliseconds; nothing here depends on the finer unit).                   *)
(***************************************************************************)
EXTENDS Integers, Sequences, FiniteSets, TLC

VARIABLES
    storage,   \* localStorage entry 'todoList': [present, text]
    view,      \* the three containers of the page: today, future, completed
    renderedAt, \* the clock reading when the containers were last filled (ghost)
    form,      \* the three input fields: name, date, priority
    now,       \* the wall clock, minutes since the epoch (UTC)
    tz,        \* the environment's UTC offset in minutes (local = UTC + tz)
    outcome,   \* how the last event handler ended: [op, result]
    hist,      \* toggleComplete calls on one index that ran back to back, with
               \* no other handler between them: [n, idx, pre], pre the
               \* store before the first of them
    call,      \* a saveTodoList call followed by a loadTodoList call, taken on
               \* their own: [pc, x, got], x the array saved, got the result
               \* of the load
    other,     \* the page of a second tab on the same store, in the background
    inflight,  \* per tab, the handler that has loaded the store and has not
               \* yet saved or rendered: its pc and its local todoList
    life       \* the adds and deletes so far (ghost): [count, born, gone],
               \* born[k] the number of the add that created the record at
               \* position k, gone the adds whose record was deleted

vars == <<storage, view, renderedAt, form, now, tz, outcome, hist,
          call, other, inflight, life>>

-----------------------------------------------------------------------------
(* Bounds *)

\* Largest number of records the persisted sequence is allowed to grow to.
MaxTasks == 2

-----------------------------------------------------------------------------
(* Characters and strings *)

EmptyStr == <<>>

\* String.prototype.trim (script.js:121): drop leading and trailing blanks.
RECURSIVE TrimLeft(_)
TrimLeft(s) ==
    IF Len(s) > 0 /\ Head(s) = " " THEN TrimLeft(Tail(s)) ELSE s

RECURSIVE TrimRight(_)
TrimRight(s) ==
    IF Len(s) > 0 /\ s[Len(s)] = " "
    THEN TrimRight(SubSeq(s, 1, Len(s) - 1))
    ELSE s

\* A trim that drops the leading blanks only.
TrimLeftOnly(s) == TrimLeft(s)

\* A trim that is forgotten.
TrimNothing(s) == s

trim(s) == TrimRight(TrimLeft(s))

\* JavaScript truthiness of a string: the empty string is falsy.
Truthy(s) == Len(s) > 0

DigitVal(c) ==
    CASE c = "0" -> 0 [] c = "1" -> 1 [] c = "2" -> 2 [] c = "3" -> 3
      [] c = "4" -> 4 [] c = "5" -> 5 [] c = "6" -> 6 [] c = "7" -> 7
      [] c = "8" -> 8 [] c = "9" -> 9

RECURSIVE ToNumber(_)
ToNumber(s) ==
    IF Len(s) = 0 THEN 0
    ELSE 10 * ToNumber(SubSeq(s, 1, Len(s) - 1)) + DigitVal(s[Len(s)])

\* String.prototype.split('-') (script.js:38): the pieces between dashes.
RECURSIVE SplitDash(_, _, _)
SplitDash(s, cur, acc) ==
    IF Len(s) = 0 THEN Append(acc, cur)
    ELSE IF Head(s) = "-" THEN SplitDash(Tail(s), <<>>, Append(acc, cur))
    ELSE SplitDash(Tail(s), Append(cur, Head(s)), acc)

split(s) == SplitDash(s, <<>>, <<>>)

-----------------------------------------------------------------------------
(* Dates *)

MinutesPerDay == 24 * 60

\* Days since 1970-01-01 of a proleptic Gregorian date.
DaysFromCivil(y, m, d) ==
    LET yy  == IF m <= 2 THEN y - 1 ELSE y
        era == yy \div 400
        yoe == yy - era * 400
        mp  == IF m > 2 THEN m - 3 ELSE m + 9
        doy == (153 * mp + 2) \div 5 + d - 1
        doe == yoe * 365 + yoe \div 4 - yoe \div 100 + doy
    IN  era * 146097 + doe - 719468

\* new Date("YYYY-MM-DD").getTime() (script.js:64, 78): a date-only ISO
\* string is read as midnight UTC of that day, whatever the local offset.
NewDate(dateString) ==
    LET p == split(dateString)
    IN  DaysFromCivil(ToNumber(p[1]), ToNumber(p[2]), ToNumber(p[3]))
            * MinutesPerDay

\* Date.prototype.setHours(0, 0, 0, 0) (script.js:56, 65): midnight, in
\* local time, of the local calendar day the instant falls on.
SetHoursZero(t, offset) ==
    LET local == t + offset
    IN  (local - (local % MinutesPerDay)) - offset

\* formatTaskDate (script.js:36-40): YYYY-MM-DD to DD/MM/YYYY.
formatTaskDate(dateString) ==
    IF ~Truthy(dateString) THEN EmptyStr
    ELSE LET p == split(dateString)
         IN  p[3] \o <<"/">> \o p[2] \o <<"/">> \o p[1]

-----------------------------------------------------------------------------
(* JSON text, as a sequence of tokens *)

LBracket == <<"[">>
RBracket == <<"]">>
LBrace   == <<"{">>
RBrace   == <<"}">>
Comma    == <<",">>
Colon    == <<":">>
TrueTok  == <<"true">>
FalseTok == <<"false">>
NullTok  == <<"null">>
Quote    == "\""
Backslash == "\\"

\* The escapes JSON.stringify writes inside a string literal.
\* An escape that leaves quotes and backslashes as they are.
EscapeNothing(s) == s

RECURSIVE Escape(_)
Escape(s) ==
    IF Len(s) = 0 THEN <<>>
    ELSE IF Head(s) = Quote \/ Head(s) = Backslash
         THEN <<Backslash, Head(s)>> \o Escape(Tail(s))
         ELSE <<Head(s)>> \o Escape(Tail(s))

\* The body of a string literal read back: [ok, s]; a bare quote or a
\* dangling backslash is a syntax error.
RECURSIVE Unescape(_)
Unescape(s) ==
    IF Len(s) = 0 THEN [ok |-> TRUE, s |-> <<>>]
    ELSE IF Head(s) = Backslash
         THEN IF Len(s) < 2 \/ ~(s[2] = Quote \/ s[2] = Backslash)
              THEN [ok |-> FALSE, s |-> <<>>]
              ELSE LET r == Unescape(SubSeq(s, 3, Len(s)))
                   IN  [ok |-> r.ok, s |-> <<s[2]>> \o r.s]
    ELSE IF Head(s) = Quote THEN [ok |-> FALSE, s |-> <<>>]
    ELSE LET r == Unescape(Tail(s))
         IN  [ok |-> r.ok, s |-> <<Head(s)>> \o r.s]

StringToken(s) == <<Quote>> \o Escape(s) \o <<Quote>>

ParseStringToken(tok) ==
    IF Len(tok) < 2 \/ tok[1] # Quote \/ tok[Len(tok)] # Quote
    THEN [ok |-> FALSE, s |-> <<>>]
    ELSE Unescape(SubSeq(tok, 2, Len(tok) - 1))

\* The property names of a task record, in the order of the object literal
\* of addItem (script.js:131-136), which is the order JSON.stringify writes.
KeyName      == <<"name">>
KeyDate      == <<"date">>
KeyPriority  == <<"priority">>
KeyCompleted == <<"completed">>

\* JSON.stringify of one task record.
StringifyItem(item) ==
    <<LBrace,
      StringToken(KeyName), Colon, StringToken(item.name), Comma,
      StringToken(KeyDate), Colon, StringToken(item.date), Comma,
      StringToken(KeyPriority), Colon, StringToken(item.priority), Comma,
      StringToken(KeyCompleted), Colon,
      IF item.completed THEN TrueTok ELSE FalseTok,
      RBrace>>

RECURSIVE StringifyItems(_)
StringifyItems(list) ==
    IF Len(list) = 0 THEN <<>>
    ELSE IF Len(list) = 1 THEN StringifyItem(list[1])
    ELSE StringifyItem(list[1]) \o <<Comma>> \o StringifyItems(Tail(list))

\* JSON.stringify(todoList) (script.js:28).
JSONstringify(list) == <<LBracket>> \o StringifyItems(list) \o <<RBracket>>

NoItem == [name |-> <<>>, date |-> <<>>, priority |-> <<>>, completed |-> FALSE]

\* The number of tokens of one record's text.
ItemTokens == Len(StringifyItem(NoItem))

\* One object of the array, read from position pos: [ok, item].
ParseItem(text, pos) ==
    IF pos + ItemTokens - 1 > Len(text) THEN [ok |-> FALSE, item |-> NoItem]
    ELSE
    LET t(k) == text[pos + k]
        n == ParseStringToken(t(3))
        d == ParseStringToken(t(7))
        p == ParseStringToken(t(11))
        shape ==
            /\ t(0) = LBrace
            /\ t(1) = StringToken(KeyName)      /\ t(2) = Colon
            /\ t(4) = Comma
            /\ t(5) = StringToken(KeyDate)      /\ t(6) = Colon
            /\ t(8) = Comma
            /\ t(9) = StringToken(KeyPriority)  /\ t(10) = Colon
            /\ t(12) = Comma
            /\ t(13) = StringToken(KeyCompleted) /\ t(14) = Colon
            /\ t(15) \in {TrueTok, FalseTok}
            /\ t(16) = RBrace
    IN  IF shape /\ n.ok /\ d.ok /\ p.ok
        THEN [ok |-> TRUE,
              item |-> [name |-> n.s, date |-> d.s, priority |-> p.s,
                        completed |-> (t(15) = TrueTok)]]
        ELSE [ok |-> FALSE, item |-> NoItem]

\* The objects of the array from position pos up to the closing bracket,
\* which must be the last token: [ok, items].
RECURSIVE ParseItems(_, _)
ParseItems(text, pos) ==
    LET first == ParseItem(text, pos)
        after == pos + ItemTokens
    IN  IF ~first.ok \/ after > Len(text) THEN [ok |-> FALSE, items |-> <<>>]
        ELSE IF text[after] = RBracket
             THEN [ok |-> after = Len(text), items |-> <<first.item>>]
        ELSE IF text[after] = Comma
             THEN LET rest == ParseItems(text, after + 1)
                  IN  [ok |-> rest.ok, items |-> <<first.item>> \o rest.items]
        ELSE [ok |-> FALSE, items |-> <<>>]

\* JSON.parse(todoJson) (script.js:20) on the texts of the model: an array
\* of task records, the literal null, or a SyntaxError.
\* [threw, kind, items] with kind "array" or "null".
SyntaxError == [threw |-> TRUE, kind |-> "none", items |-> <<>>]
JSONparse(text) ==
    IF text = <<NullTok>>
    THEN [threw |-> FALSE, kind |-> "null", items |-> <<>>]
    ELSE IF Len(text) < 2 \/ text[1] # LBracket THEN SyntaxError
    ELSE IF text[2] = RBracket
         THEN IF Len(text) = 2
              THEN [threw |-> FALSE, kind |-> "array", items |-> <<>>]
              ELSE SyntaxError
    ELSE LET r == ParseItems(text, 2)
         IN  IF r.ok
             THEN [threw |-> FALSE, kind |-> "array", items |-> r.items]
             ELSE SyntaxError

-----------------------------------------------------------------------------
(* TaskStore *)

Absent == [present |-> FALSE, text |-> <<>>]
Stored(text) == [present |-> TRUE, text |-> text]

\* loadTodoList (script.js:18-21): getItem gives null when the key is absent;
\* null and the empty string are falsy and give []; anything else is parsed.
loadTodoList(store) ==
    IF store.present /\ Len(store.text) > 0
    THEN JSONparse(store.text)
    ELSE [threw |-> FALSE, kind |-> "array", items |-> <<>>]

\* saveTodoList (script.js:27-29): the entry is overwritten with the text.
saveTodoList(todoList) == Stored(JSONstringify(todoList))

-----------------------------------------------------------------------------
(* JavaScript numbers as far as the index needs them: an integer or NaN *)

Num(v) == [nan |-> FALSE, v |-> v]
NaN    == [nan |-> TRUE, v |-> 0]

DigitChar(d) ==
    CASE d = 0 -> "0" [] d = 1 -> "1" [] d = 2 -> "2" [] d = 3 -> "3"
      [] d = 4 -> "4" [] d = 5 -> "5" [] d = 6 -> "6" [] d = 7 -> "7"
      [] d = 8 -> "8" [] d = 9 -> "9"

\* String(index), as setAttribute('data-index', index) stores it
\* (script.js:98); index is never negative there.
RECURSIVE NumberToString(_)
NumberToString(n) ==
    IF n < 10 THEN <<DigitChar(n)>>
    ELSE NumberToString(n \div 10) \o <<DigitChar(n % 10)>>

IsDigit(c) == c \in {"0", "1", "2", "3", "4", "5", "6", "7", "8", "9"}

RECURSIVE DigitPrefix(_)
DigitPrefix(s) ==
    IF Len(s) > 0 /\ IsDigit(Head(s))
    THEN <<Head(s)>> \o DigitPrefix(Tail(s))
    ELSE <<>>

\* parseInt(attribute) (script.js:187): the leading digits, after an
\* optional sign; NaN when there are none.
parseInt(s) ==
    LET neg    == Len(s) > 0 /\ Head(s) = "-"
        digits == DigitPrefix(IF neg THEN Tail(s) ELSE s)
    IN  IF Len(digits) = 0 THEN NaN
        ELSE Num(IF neg THEN 0 - ToNumber(digits) ELSE ToNumber(digits))

\* An upper bound that is off by one.
LessThanOrEqual(index, n) == ~index.nan /\ index.v <= n

\* index >= 0 and index < n in JavaScript: false whenever index is NaN.
GeZero(index)     == ~index.nan /\ index.v >= 0
LessThan(index, n) == ~index.nan /\ index.v < n

-----------------------------------------------------------------------------
(* Categorizer / Renderer *)

\* Positions counted from 1.
EntriesFromOne(todoList) ==
    [k \in 1..Len(todoList) |-> [item |-> todoList[k], index |-> k]]

\* An entry of a bucket: the record and its position in the loaded array
\* (script.js:63, 68-73); forEach counts positions from 0.
Entry(item, index) == [item |-> item, index |-> index]

Entries(todoList) == [k \in 1..Len(todoList) |-> Entry(todoList[k], k - 1)]

\* The bucket renderTodoList puts a record in (script.js:64-74).
BucketOf(item, today, offset) ==
    IF item.completed THEN "completed"
    ELSE IF Truthy(item.date)
            /\ SetHoursZero(NewDate(item.date), offset) = today
         THEN "today"
    ELSE "future"

\* new Date(a.item.date) - new Date(b.item.date) (script.js:78-82): the
\* difference is NaN when a date does not parse, and sort reads NaN as 0.
DateDiff(a, b) ==
    IF Truthy(a.item.date) /\ Truthy(b.item.date)
    THEN NewDate(a.item.date) - NewDate(b.item.date)
    ELSE 0

\* One comparator, earliest first, for every bucket.
CompareAscending(order, a, b) == DateDiff(a, b)

\* The two comparators: earliest first (script.js:78-79) and newest first
\* (script.js:82).
Compare(order, a, b) ==
    IF order = "ascending" THEN DateDiff(a, b) ELSE DateDiff(b, a)

\* An insertion that compares nothing: the array stays as it was.
InsertLast(sorted, x, order) == Append(sorted, x)

\* Array.prototype.sort is stable: x goes after every element that does not
\* compare greater than it.
RECURSIVE InsertSorted(_, _, _)
InsertSorted(sorted, x, order) ==
    IF Len(sorted) = 0 THEN <<x>>
    ELSE IF Compare(order, sorted[Len(sorted)], x) <= 0 THEN Append(sorted, x)
    ELSE Append(InsertSorted(SubSeq(sorted, 1, Len(sorted) - 1), x, order),
                sorted[Len(sorted)])

RECURSIVE SortFrom(_, _, _)
SortFrom(list, acc, order) ==
    IF Len(list) = 0 THEN acc
    ELSE SortFrom(Tail(list), InsertSorted(acc, Head(list), order), order)

sort(list, order) == SortFrom(list, <<>>, order)

\* A row that carries the toggle-complete button in every section.
RowAlwaysToggle(entry, completedSection) ==
    [dataIndex     |-> NumberToString(entry.index),
     completedTask |-> entry.item.completed,
     label         |-> entry.index + 1,
     name          |-> entry.item.name,
     date          |-> formatTaskDate(entry.item.date),
     priority      |-> entry.item.priority,
     toggle        |-> TRUE,
     delete        |-> TRUE]

\* One task row (script.js:95-112).  toggle says whether the row carries the
\* toggle-complete button: it does unless the section is the completed one.
Row(entry, completedSection) ==
    [dataIndex     |-> NumberToString(entry.index),
     completedTask |-> entry.item.completed,
     label         |-> entry.index + 1,
     name          |-> entry.item.name,
     date          |-> formatTaskDate(entry.item.date),
     priority      |-> entry.item.priority,
     toggle        |-> ~completedSection,
     delete        |-> TRUE]

\* One container after its section is rendered (script.js:89-114): the
\* "no tasks" placeholder when the list is empty, else one row per entry.
Section(list, completedSection) ==
    [placeholder |-> Len(list) = 0,
     rows |-> [k \in 1..Len(list) |-> Row(list[k], completedSection)]]

\* A container with innerHTML = '' (script.js:51-53).
Cleared == [placeholder |-> FALSE, rows |-> <<>>]

Buckets == {"today", "future", "completed"}

BlankView == [b \in Buckets |-> Cleared]

\* renderTodoList (script.js:47-115) on a loaded array.
RenderList(todoList, t, offset) ==
    LET today == SetHoursZero(t, offset)
        all   == Entries(todoList)
        In(b) == SelectSeq(all, LAMBDA e : BucketOf(e.item, today, offset) = b)
        todayTasks     == sort(In("today"), "ascending")
        futureTasks    == sort(In("future"), "ascending")
        completedTasks == sort(In("completed"), "descending")
    IN  [today     |-> Section(todayTasks, FALSE),
         future    |-> Section(futureTasks, FALSE),
         completed |-> Section(completedTasks, TRUE)]

\* A render that sorts the loaded array itself, newest first, and writes it
\* back to the store.
RenderAndSave(store, old, oldAt, t, offset) ==
    LET loaded == loadTodoList(store)
        sorted == sort(Entries(loaded.items), "descending")
    IN  IF loaded.threw
        THEN [threw |-> TRUE, view |-> old, at |-> oldAt, store |-> store]
        ELSE IF loaded.kind # "array"
             THEN [threw |-> TRUE, view |-> BlankView, at |-> oldAt,
                   store |-> store]
        ELSE [threw |-> FALSE, view |-> RenderList(loaded.items, t, offset),
              at |-> t,
              store |-> saveTodoList([k \in 1..Len(sorted) |-> sorted[k].item])]

\* renderTodoList (script.js:47-115): [threw, view, at, store], at the clock
\* reading new Date() took (script.js:55) when the containers now on the page
\* were written, store the localStorage entry when it returns: it reads the
\* entry (script.js:48) and has no call that writes it.  A SyntaxError of the
\* load leaves the page as it was; a loaded null fails at forEach, after the
\* containers were cleared.
renderTodoList(store, old, oldAt, t, offset) ==
    LET loaded == loadTodoList(store)
    IN  IF loaded.threw
        THEN [threw |-> TRUE, view |-> old, at |-> oldAt, store |-> store]
        ELSE IF loaded.kind # "array"
             THEN [threw |-> TRUE, view |-> BlankView, at |-> oldAt,
                   store |-> store]
        ELSE [threw |-> FALSE, view |-> RenderList(loaded.items, t, offset),
              at |-> t, store |-> store]

-----------------------------------------------------------------------------
(* Inputs *)

DateA == <<"2", "0", "2", "4", "-", "0", "1", "-", "3", "1">>
DateB == <<"2", "0", "2", "4", "-", "0", "2", "-", "0", "1">>

High == <<"high">>

Field(n, d, p) == [name |-> n, date |-> d, priority |-> p]

EmptyForm == Field(<<>>, <<>>, <<>>)

\* What the user may have typed when the add button is clicked: two complete
\* forms (one name padded with blanks and holding a quote), and one form for
\* each way a field can be empty.
FormInputs ==
    { Field(<<"a">>, DateA, High),
      Field(<<" ", "b", Quote, " ">>, DateB, High),
      Field(<<>>, DateA, High), Field(<<" ", " ">>, DateA, High),
      Field(<<"a">>, <<>>, High), Field(<<"a">>, DateB, <<>>) }

\* The wall clock early on the UTC day of DateA, and early on the day after
\* DateB, when both dates are past.
Times == { NewDate(DateA) + 3 * 60, NewDate(DateB) + 27 * 60 }

\* UTC-5, UTC, UTC+9.
TzOffsets == { 0 - 5 * 60, 0, 9 * 60 }

\* What the store may hold when the page is opened: nothing, the empty
\* string, a text cut short, the literal null, or a saved empty array.
\* Every array of records the form can produce is reached from these.
InitStores ==
    { Absent, Stored(<<>>), Stored(<<LBracket, LBrace>>), Stored(<<NullTok>>),
      saveTodoList(<<>>) }

\* The arguments of a direct call of deleteItem or toggleComplete.
Indexes == { Num(v) : v \in (0 - 1)..MaxTasks } \cup { NaN }

-----------------------------------------------------------------------------
(* State *)

Outcome(op, result) == [op |-> op, result |-> result]

NoHist == [n |-> 0, idx |-> NaN, pre |-> Absent]

\* No call of the store functions on their own, no second tab, no handler
\* stopped between its load and its save, nothing counted.
NoCall   == [pc |-> "none", x |-> <<>>, got |-> SyntaxError]
NoOther  == [open |-> FALSE, view |-> BlankView]
NoFlight == <<>>
NoLife   == [count |-> 0, born |-> <<>>, gone |-> {}]

\* DOMContentLoaded (script.js:1-11, 196-197): empty inputs, empty
\* containers, then the initial render.
Opened(store, t, offset) ==
    \E r \in { renderTodoList(store, BlankView, t, t, offset) } :
        /\ storage' = r.store
        /\ view' = r.view
        /\ renderedAt' = r.at
        /\ form' = EmptyForm
        /\ outcome' = Outcome("load", IF r.threw THEN "threw" ELSE "ok")

Init ==
    /\ now \in Times
    /\ tz \in TzOffsets
    /\ \E found \in InitStores :
          \E r \in { renderTodoList(found, BlankView, now, now, tz) } :
              /\ storage = r.store
              /\ view = r.view
              /\ renderedAt = r.at
              /\ outcome = Outcome("load", IF r.threw THEN "threw" ELSE "ok")
    /\ form = EmptyForm
    /\ hist = NoHist
    /\ call = NoCall
    /\ other = NoOther
    /\ inflight = NoFlight
    /\ life = NoLife

-----------------------------------------------------------------------------
(* Handlers *)

\* The page is loaded again.
PageLoad ==
    /\ Opened(storage, now, tz)
    /\ hist' = NoHist
    /\ UNCHANGED <<now, tz>>

\* Time passes.
Tick ==
    /\ \E t \in Times : t > now /\ now' = t
    /\ UNCHANGED <<storage, view, renderedAt, form, tz, outcome, hist>>

\* A push that puts the element first.
PushFront(todoList, newItem) == <<newItem>> \o todoList

\* Array.prototype.push (script.js:138).
push(todoList, newItem) == Append(todoList, newItem)

\* addItem (script.js:120-147), with f the contents of the input fields when
\* the add button is clicked.
addItem(f) ==
    LET name     == trim(f.name)
        date     == f.date
        priority == f.priority
        loaded   == loadTodoList(storage)
        newItem  == [name |-> name, date |-> date, priority |-> priority,
                     completed |-> FALSE]
    IN  IF ~Truthy(name) \/ ~Truthy(date) \/ ~Truthy(priority)
        THEN /\ outcome' = Outcome("add", "alert")
             /\ form' = f
             /\ hist' = NoHist
             /\ UNCHANGED <<storage, view, renderedAt, now, tz>>
        ELSE IF loaded.threw \/ loaded.kind # "array"
        THEN /\ outcome' = Outcome("add", "threw")
             /\ form' = f
             /\ hist' = NoHist
             /\ UNCHANGED <<storage, view, renderedAt, now, tz>>
        ELSE /\ Len(loaded.items) < MaxTasks
             /\ form' = EmptyForm
             /\ \E r \in { renderTodoList(saveTodoList(push(loaded.items, newItem)),
                                          view, renderedAt, now, tz) } :
                    /\ storage' = r.store
                    /\ view' = r.view
                    /\ renderedAt' = r.at
                    /\ outcome' =
                         Outcome("add", IF r.threw THEN "threw" ELSE "ok")
             /\ hist' = NoHist
             /\ UNCHANGED <<now, tz>>

\* A splice that removes nothing.
SpliceNothing(todoList, index) == todoList

\* A splice that removes the element after the one asked for.
SpliceNext(todoList, index) ==
    SubSeq(todoList, 1, index + 1) \o SubSeq(todoList, index + 3, Len(todoList))

\* Array.prototype.splice(index, 1) (script.js:156).
splice(todoList, index) ==
    SubSeq(todoList, 1, index) \o SubSeq(todoList, index + 2, Len(todoList))

\* deleteItem (script.js:153-160).  The length is read only when
\* index >= 0 holds, and reading it of null throws.
deleteItem(index) ==
    LET loaded == loadTodoList(storage)
    IN  IF loaded.threw \/ (GeZero(index) /\ loaded.kind # "array")
        THEN /\ outcome' = Outcome("delete", "threw")
             /\ hist' = NoHist
             /\ UNCHANGED <<storage, view, renderedAt, form, now, tz>>
        ELSE IF GeZero(index) /\ LessThan(index, Len(loaded.items))
        THEN /\ \E r \in { renderTodoList(saveTodoList(splice(loaded.items, index.v)),
                                          view, renderedAt, now, tz) } :
                    /\ storage' = r.store
                    /\ view' = r.view
                    /\ renderedAt' = r.at
                    /\ outcome' =
                         Outcome("delete", IF r.threw THEN "threw" ELSE "ok")
             /\ hist' = NoHist
             /\ UNCHANGED <<form, now, tz>>
        ELSE /\ outcome' = Outcome("delete", "ignored")
             /\ hist' = NoHist
             /\ UNCHANGED <<storage, view, renderedAt, form, now, tz>>

\* A toggle that flips every record.
FlipAll(todoList, index) ==
    [k \in 1..Len(todoList) |->
        [todoList[k] EXCEPT !.completed = ~todoList[k].completed]]

\* A toggle that only ever marks the record completed.
FlipToTrue(todoList, index) ==
    [todoList EXCEPT ![index + 1].completed = TRUE]

\* todoList[index].completed = !todoList[index].completed (script.js:169).
Flip(todoList, index) ==
    [todoList EXCEPT ![index + 1].completed = ~todoList[index + 1].completed]

\* toggleComplete (script.js:166-173).
toggleComplete(index) ==
    LET loaded == loadTodoList(storage)
    IN  IF loaded.threw \/ (GeZero(index) /\ loaded.kind # "array")
        THEN /\ outcome' = Outcome("toggle", "threw")
             /\ hist' = NoHist
             /\ UNCHANGED <<storage, view, renderedAt, form, now, tz>>
        ELSE IF GeZero(index) /\ LessThan(index, Len(loaded.items))
        THEN /\ \E r \in { renderTodoList(saveTodoList(Flip(loaded.items, index.v)),
                                          view, renderedAt, now, tz) } :
                    /\ storage' = r.store
                    /\ view' = r.view
                    /\ renderedAt' = r.at
                    /\ outcome' =
                         Outcome("toggle", IF r.threw THEN "threw" ELSE "ok")
             /\ hist' = IF hist.n = 1 /\ hist.idx = index
                        THEN [hist EXCEPT !.n = 2]
                        ELSE [n |-> 1, idx |-> index, pre |-> storage]
             /\ UNCHANGED <<form, now, tz>>
        ELSE /\ outcome' = Outcome("toggle", "ignored")
             /\ hist' = NoHist
             /\ UNCHANGED <<storage, view, renderedAt, form, now, tz>>

\* The add button's listener (script.js:177).
ClickAdd == \E f \in FormInputs : addItem(f)

\* The delegated click listener (script.js:180-194) for a click on the delete
\* button of the k-th row of container b.
ClickDelete ==
    \E b \in Buckets : \E k \in 1..Len(view[b].rows) :
        /\ view[b].rows[k].delete
        /\ deleteItem(parseInt(view[b].rows[k].dataIndex))

\* The same listener for a click on the row's toggle-complete button.
ClickToggle ==
    \E b \in Buckets : \E k \in 1..Len(view[b].rows) :
        /\ view[b].rows[k].toggle
        /\ toggleComplete(parseInt(view[b].rows[k].dataIndex))

\* One tab, handlers run to completion, nothing counted.
Alone == UNCHANGED <<call, other, inflight, life>>

Next ==
    \/ PageLoad /\ Alone
    \/ Tick /\ Alone
    \/ ClickAdd /\ Alone
    \/ ClickDelete /\ Alone
    \/ ClickToggle /\ Alone

Spec == Init /\ [][Next]_vars

\* deleteItem and toggleComplete called with any index.
CallDelete == \E i \in Indexes : deleteItem(i)
CallToggle == \E i \in Indexes : toggleComplete(i)

NextCalls ==
    \/ ClickAdd /\ Alone
    \/ CallDelete /\ Alone
    \/ CallToggle /\ Alone

\* The calls are made on a page opened at the earlier clock reading, under
\* UTC: what they do to the store depends on neither.
InitCalls == Init /\ tz = 0 /\ \A t \in Times : now <= t

SpecCalls == InitCalls /\ [][NextCalls]_vars

-----------------------------------------------------------------------------
(* The store functions on their own *)

\* Record fields a caller of saveTodoList may pass: a plain name, a name
\* ending in a quote, a name made of a backslash and a blank; a date or the
\* empty string; either value of completed.
SavedNames == { <<"a">>, <<"b", Quote>>, <<Backslash, " ">> }
SavedDates == { DateA, <<>> }
SavedItems ==
    { [name |-> n, date |-> d, priority |-> High, completed |-> c] :
        n \in SavedNames, d \in SavedDates, c \in BOOLEAN }

\* The arrays of at most MaxTasks such records, the empty array among them.
SavedArrays == UNION { [1..n -> SavedItems] : n \in 0..MaxTasks }

\* What the entry may hold before the call: as when the page is opened, or
\* an array saved earlier.
StoresBefore ==
    InitStores \cup
        { saveTodoList(<<[name |-> <<"a">>, date |-> DateB, priority |-> High,
                          completed |-> TRUE]>>) }

\* saveTodoList(x) is about to be called, for any array x and any earlier
\* content of the entry; no page is involved.
InitStore ==
    /\ storage \in StoresBefore
    /\ call \in { [pc |-> "start", x |-> x, got |-> SyntaxError] :
                    x \in SavedArrays }
    /\ now \in Times /\ \A t \in Times : now <= t
    /\ tz = 0
    /\ view = BlankView
    /\ renderedAt = now
    /\ form = EmptyForm
    /\ outcome = Outcome("none", "ok")
    /\ hist = NoHist
    /\ other = NoOther
    /\ inflight = NoFlight
    /\ life = NoLife

\* saveTodoList(x) (script.js:27-29).
SaveCall ==
    /\ call.pc = "start"
    /\ storage' = saveTodoList(call.x)
    /\ call' = [call EXCEPT !.pc = "saved"]
    /\ UNCHANGED <<view, renderedAt, form, now, tz, outcome, hist,
                   other, inflight, life>>

\* loadTodoList() (script.js:18-21), its result kept in got.
LoadCall ==
    /\ call.pc = "saved"
    /\ call' = [call EXCEPT !.pc = "loaded", !.got = loadTodoList(storage)]
    /\ UNCHANGED <<storage, view, renderedAt, form, now, tz, outcome, hist,
                   other, inflight, life>>

NextStore == SaveCall \/ LoadCall

SpecStore == InitStore /\ [][NextStore]_vars

-----------------------------------------------------------------------------
(* One tab, with the adds counted *)

\* The adds are numbered up to MaxAdds, enough to fill the sequence, empty
\* part of it and fill it again.
MaxAdds == MaxTasks + 2

\* The forms with every field filled in.
CompleteForms ==
    { f \in FormInputs :
        Truthy(trim(f.name)) /\ Truthy(f.date) /\ Truthy(f.priority) }

\* addItem on a complete form, the record it pushes numbered with the next
\* count.
CountedAdd ==
    /\ life.count < MaxAdds
    /\ \E f \in CompleteForms : addItem(f)
    /\ life' = IF outcome' = Outcome("add", "ok")
               THEN [life EXCEPT !.count = life.count + 1,
                                 !.born = push(life.born, life.count + 1)]
               ELSE life
    /\ UNCHANGED <<call, other, inflight>>

\* deleteItem(i), the number of the record it was asked to remove noted as
\* gone.
CountedDelete ==
    \E i \in Indexes :
        /\ deleteItem(i)
        /\ life' = IF outcome' = Outcome("delete", "ok")
                   THEN [life EXCEPT !.born = splice(life.born, i.v),
                                     !.gone = life.gone \cup {life.born[i.v + 1]}]
                   ELSE life
        /\ UNCHANGED <<call, other, inflight>>

\* toggleComplete(i) creates and removes nothing.
CountedToggle == CallToggle /\ Alone

NextLife == CountedAdd \/ CountedDelete \/ CountedToggle

SpecLife == InitCalls /\ [][NextLife]_vars

-----------------------------------------------------------------------------
(* Two tabs on one store, each running one handler, statement by statement *)

\* Tab 1 is the page of view, tab 2 the page of other.
Tabs == {1, 2}

\* What each tab's user has typed before clicking the add button.
TabForms ==
    <<Field(<<"a">>, DateA, High), Field(<<" ", "b", Quote, " ">>, DateB, High)>>

\* The records those forms make, open or completed since, and the arrays of
\* them a store may hold when the two handlers start.
TabItems ==
    { [name |-> trim(TabForms[t].name), date |-> TabForms[t].date,
       priority |-> TabForms[t].priority, completed |-> c] :
        t \in Tabs, c \in BOOLEAN }

RaceStores ==
    { Absent } \cup
        { saveTodoList(l) : l \in UNION { [1..n -> TabItems] : n \in 0..MaxTasks } }

\* A tab whose handler has not started.  Of a started handler: op and its
\* argument (the form or the index), base the array it loaded, todoList that
\* array after push, splice or the flip; overlap says that the other tab
\* has saved since (ghost).
Idle ==
    [pc |-> "idle", op |-> "none", f |-> EmptyForm, index |-> NaN,
     base |-> <<>>, todoList |-> <<>>, overlap |-> FALSE]

PageView(t) == IF t = 1 THEN view ELSE other.view

InitRace ==
    /\ now \in Times /\ \A t \in Times : now <= t
    /\ tz = 0
    /\ \E found \in RaceStores :
          \E r \in { renderTodoList(found, BlankView, now, now, tz) } :
              /\ storage = r.store
              /\ view = r.view
              /\ renderedAt = r.at
              /\ other = [open |-> TRUE, view |-> r.view]
    /\ outcome = Outcome("load", "ok")
    /\ form = EmptyForm
    /\ hist = NoHist
    /\ call = NoCall
    /\ inflight = [t \in Tabs |-> Idle]
    /\ life = NoLife

Started(t, op, f, index, base, todoList) ==
    /\ inflight' = [inflight EXCEPT ![t] =
           [pc |-> "loaded", op |-> op, f |-> f, index |-> index,
            base |-> base, todoList |-> todoList, overlap |-> FALSE]]
    /\ UNCHANGED <<storage, view, renderedAt, form, now, tz, outcome, hist,
                   call, other, life>>

\* addItem up to todoList.push (script.js:121-138) in tab t.
BeginAdd(t) ==
    LET f       == TabForms[t]
        newItem == [name |-> trim(f.name), date |-> f.date,
                    priority |-> f.priority, completed |-> FALSE]
        loaded  == loadTodoList(storage)
    IN  /\ inflight[t].pc = "idle"
        /\ Len(loaded.items) < MaxTasks
        /\ Started(t, "add", f, NaN, loaded.items, push(loaded.items, newItem))

\* The handler returned without saving: the index was out of range.
Ignored(t, op, index) ==
    /\ inflight' = [inflight EXCEPT ![t] =
           [Idle EXCEPT !.pc = "done", !.op = op, !.index = index]]
    /\ UNCHANGED <<storage, view, renderedAt, form, now, tz, outcome, hist,
                   call, other, life>>

\* deleteItem up to todoList.splice (script.js:154-156) in tab t, for a click
\* on a delete button of its page.
BeginDelete(t) ==
    \E b \in Buckets : \E k \in 1..Len(PageView(t)[b].rows) :
        LET index  == parseInt(PageView(t)[b].rows[k].dataIndex)
            loaded == loadTodoList(storage)
        IN  /\ inflight[t].pc = "idle"
            /\ PageView(t)[b].rows[k].delete
            /\ IF GeZero(index) /\ LessThan(index, Len(loaded.items))
               THEN Started(t, "delete", EmptyForm, index, loaded.items,
                            splice(loaded.items, index.v))
               ELSE Ignored(t, "delete", index)

\* toggleComplete up to the flip (script.js:167-169) in tab t, for a click on
\* a toggle-complete button of its page.
BeginToggle(t) ==
    \E b \in Buckets : \E k \in 1..Len(PageView(t)[b].rows) :
        LET index  == parseInt(PageView(t)[b].rows[k].dataIndex)
            loaded == loadTodoList(storage)
        IN  /\ inflight[t].pc = "idle"
            /\ PageView(t)[b].rows[k].toggle
            /\ IF GeZero(index) /\ LessThan(index, Len(loaded.items))
               THEN Started(t, "toggle", EmptyForm, index, loaded.items,
                            Flip(loaded.items, index.v))
               ELSE Ignored(t, "toggle", index)

\* A write that keeps the records the entry holds and the array lacks.
Merged(store, todoList) ==
    LET Lacking(x) == \A k \in 1..Len(todoList) : todoList[k] # x
    IN  saveTodoList(todoList \o SelectSeq(loadTodoList(store).items, Lacking))

\* localStorage.setItem (script.js:28) replaces the entry, whoever wrote it.
setItem(store, todoList) == saveTodoList(todoList)

\* saveTodoList(todoList) (script.js:139, 157, 170) in tab t.
Save(t) ==
    /\ inflight[t].pc = "loaded"
    /\ storage' = setItem(storage, inflight[t].todoList)
    /\ inflight' = [u \in Tabs |->
           IF u = t THEN [inflight[u] EXCEPT !.pc = "saved"]
           ELSE IF inflight[u].pc = "loaded"
                THEN [inflight[u] EXCEPT !.overlap = TRUE]
                ELSE inflight[u]]
    /\ UNCHANGED <<view, renderedAt, form, now, tz, outcome, hist,
                   call, other, life>>

\* renderTodoList() (script.js:145, 158, 171) in tab t, which loads the
\* store again.
Render(t) ==
    /\ inflight[t].pc = "saved"
    /\ inflight' = [inflight EXCEPT ![t].pc = "done"]
    /\ \E r \in { renderTodoList(storage, PageView(t), renderedAt, now, tz) } :
           /\ storage' = r.store
           /\ IF t = 1
              THEN /\ view' = r.view
                   /\ UNCHANGED other
              ELSE /\ other' = [other EXCEPT !.view = r.view]
                   /\ UNCHANGED view
    /\ UNCHANGED <<renderedAt, form, now, tz, outcome, hist, call, life>>

NextRace ==
    \E t \in Tabs :
        \/ BeginAdd(t)
        \/ BeginDelete(t)
        \/ BeginToggle(t)
        \/ Save(t)
        \/ Render(t)

SpecRace == InitRace /\ [][NextRace]_vars

-----------------------------------------------------------------------------
(* Properties *)

\* Whether the store loads as an array, and the array it loads as.
IsList(store) ==
    LET l == loadTodoList(store) IN ~l.threw /\ l.kind = "array"

Items(store) == loadTodoList(store).items

\* The rows on the page, container after container.
AllRows == view["today"].rows \o view["future"].rows \o view["completed"].rows

InRange(index, n) == ~index.nan /\ 0 <= index.v /\ index.v < n

\* The steps of a handler that ended normally.
Added      == outcome' = Outcome("add", "ok") /\ \E f \in FormInputs : addItem(f)
Deleted(i) == outcome' = Outcome("delete", "ok") /\ deleteItem(i)
Toggled(i) == outcome' = Outcome("toggle", "ok") /\ toggleComplete(i)

\* C1: a successful addItem makes the persisted sequence one longer, a
\* successful deleteItem one shorter, a successful toggleComplete leaves its
\* length; every record other than the one added, deleted or toggled keeps
\* its four fields.
C1_Step ==
    LET before == Items(storage)
        after  == Items(storage')
    IN  /\ Added =>
            /\ IsList(storage')
            /\ Len(after) = Len(before) + 1
            /\ \A k \in 1..Len(before) : after[k] = before[k]
        /\ \A i \in Indexes : Deleted(i) =>
            /\ IsList(storage')
            /\ Len(after) = Len(before) - 1
            /\ \A k \in 1..Len(after) :
                 after[k] = IF k <= i.v THEN before[k] ELSE before[k + 1]
        /\ \A i \in Indexes : Toggled(i) =>
            /\ IsList(storage')
            /\ Len(after) = Len(before)
            /\ \A k \in 1..Len(before) : k # i.v + 1 => after[k] = before[k]

C1_LengthAndFrame == [][C1_Step]_vars

\* A toggle has succeeded on a sequence of two records.
C1_Witness == outcome = Outcome("toggle", "ok") /\ Len(Items(storage)) = 2

\* C2: deleteItem(i) with 0 <= i < n leaves the sequence of length n-1 that
\* is the old one without its element at position i: the records before i
\* stay where they were, the records after i move down by one.
C2_Step ==
    LET before == Items(storage)
        after  == Items(storage')
    IN  \A i \in Indexes :
          ( /\ outcome'.op = "delete"
            /\ IsList(storage)
            /\ InRange(i, Len(before))
            /\ deleteItem(i) ) =>
            /\ outcome' = Outcome("delete", "ok")
            /\ IsList(storage')
            /\ Len(after) = Len(before) - 1
            /\ \A k \in 1..i.v : after[k] = before[k]
            /\ \A k \in (i.v + 1)..Len(after) : after[k] = before[k + 1]

ShownDate(date) ==
    SubSeq(date, 9, 10) \o <<"/">> \o SubSeq(date, 6, 7) \o <<"/">>
        \o SubSeq(date, 1, 4)

\* Whether row displays the record at the position its data-index names.
RowShows(row, items) ==
    LET idx == parseInt(row.dataIndex)
    IN  /\ InRange(idx, Len(items))
        /\ row.label = idx.v + 1
        /\ row.name = items[idx.v + 1].name
        /\ row.date = ShownDate(items[idx.v + 1].date)
        /\ row.priority = items[idx.v + 1].priority
        /\ row.completedTask = items[idx.v + 1].completed

\* C3: in a single tab, after every operation the rows on the page and the
\* persisted records correspond one to one: each row's data-index is a
\* position of the persisted sequence, the row shows the record stored there
\* under the label index + 1, and each record has exactly one row.
C3_RowsMatchRecords ==
    IsList(storage) =>
        LET items == Items(storage)
            rows  == AllRows
        IN  /\ Len(rows) = Len(items)
            /\ \A k \in 1..Len(rows) : RowShows(rows[k], items)
            /\ \A i \in 0..(Len(items) - 1) :
                 Cardinality({k \in 1..Len(rows) :
                                parseInt(rows[k].dataIndex) = Num(i)}) = 1

\* Two records are on the page in another order than they are stored in.
C3_Witness ==
    /\ Len(Items(storage)) = 2
    /\ Len(AllRows) = 2
    /\ parseInt(AllRows[1].dataIndex) = Num(1)

\* C4: loading never raises an error, whatever the store holds, so no
\* handler ends with an exception.
C4_NothingThrows ==
    /\ ~loadTodoList(storage).threw
    /\ loadTodoList(storage).kind = "array"
    /\ outcome.result # "threw"

\* The local calendar day (days since the epoch) shown by a wall clock.
LocalDay(t, offset) == (t + offset) \div MinutesPerDay

\* The calendar day (days since the epoch) a stored date names.
DateDay(dateString) == NewDate(dateString) \div MinutesPerDay

\* Whether the record is dated the local calendar day of the last render.
DatedToday(item) ==
    Truthy(item.date) /\ DateDay(item.date) = LocalDay(renderedAt, tz)

\* The container a row of the page is in.
RowsIn(b) == {view[b].rows[k] : k \in 1..Len(view[b].rows)}

RecordOf(row) == Items(storage)[parseInt(row.dataIndex).v + 1]

\* C5: an open task dated the current local calendar day is rendered in the
\* today container and never in the future one, at every time of day and
\* under every UTC offset.
C5_TodayTaskInToday ==
    IsList(storage) =>
        \A b \in Buckets : \A row \in RowsIn(b) :
            (~RecordOf(row).completed /\ DatedToday(RecordOf(row)))
                => b = "today"

\* C6 as claimed: every task on the page has a row that carries the
\* toggle control, whether the task is open or completed.
C6_BothDirectionsOffered ==
    IsList(storage) =>
        \A i \in 0..(Len(Items(storage)) - 1) :
            \E row \in RowsIn("today") \cup RowsIn("future")
                         \cup RowsIn("completed") :
                parseInt(row.dataIndex) = Num(i) /\ row.toggle

\* C6 as amended: a row carries the toggle control exactly when its task is
\* open, and the delete control always; a click on the toggle control makes
\* the row's task completed, so no click reopens a completed task.
C6_ToggleOfferedWhenOpen ==
    IsList(storage) =>
        \A b \in Buckets : \A row \in RowsIn(b) :
            /\ row.toggle <=> ~RecordOf(row).completed
            /\ row.delete

C6_ClickCompletes ==
    \A i \in Indexes : Toggled(i) =>
        /\ ~Items(storage)[i.v + 1].completed
        /\ Items(storage')[i.v + 1].completed

C6_ToggleOnlyCompletes ==
    [](C6_ToggleOfferedWhenOpen) /\ [][C6_ClickCompletes]_vars

\* A click has completed a task while another task is still open.
C6_Witness ==
    /\ outcome = Outcome("toggle", "ok")
    /\ \E row \in RowsIn("completed") : ~row.toggle
    /\ \E row \in RowsIn("today") \cup RowsIn("future") : row.toggle

\* The container the claim assigns a record to.
ClaimedBucket(item) ==
    IF item.completed THEN "completed"
    ELSE IF DatedToday(item) THEN "today"
    ELSE "future"

\* C7: every record is rendered in exactly one container: completed when it
\* is completed, today when it is open and dated the current calendar day,
\* future when it is open and dated any other day.
C7_PartitionByCalendarDay ==
    IsList(storage) =>
        /\ Len(AllRows) = Len(Items(storage))
        /\ \A b \in Buckets : \A row \in RowsIn(b) :
                b = ClaimedBucket(RecordOf(row))

\* Whether a form has an empty field, the name counting as empty when it
\* holds nothing but blanks.
HasEmptyField(f) ==
    \/ \A k \in 1..Len(f.name) : f.name[k] = " "
    \/ Len(f.date) = 0
    \/ Len(f.priority) = 0

\* C8: addItem with an empty name (after trimming), date or priority alerts
\* and aborts: the store is left exactly as it was.
C8_Step ==
    \A f \in FormInputs :
      (outcome'.op = "add" /\ HasEmptyField(f) /\ addItem(f)) =>
        /\ outcome' = Outcome("add", "alert")
        /\ storage' = storage

C8_EmptyFieldAborts == [][C8_Step]_vars

\* The add button was clicked with a name of blanks only.
C8_Witness == outcome = Outcome("add", "alert") /\ form.name = <<" ", " ">>

\* C9: deleteItem(i) and toggleComplete(i) with i negative, at least the
\* length of the loaded sequence, or NaN change nothing and raise nothing.
C9_Step ==
    \A i \in Indexes :
        ( /\ outcome'.op \in {"delete", "toggle"}
          /\ IsList(storage)
          /\ ~InRange(i, Len(Items(storage)))
          /\ deleteItem(i) \/ toggleComplete(i) ) =>
            /\ storage' = storage
            /\ view' = view
            /\ outcome'.result = "ignored"

C9_OutOfRangeIgnored == [][C9_Step]_vars

\* A delete was ignored although the sequence holds a record.
C9_Witness ==
    outcome = Outcome("delete", "ignored") /\ Len(Items(storage)) >= 1

\* C10: two toggleComplete calls in a row on one in-range index leave the
\* persisted sequence as it was before the first.
C10_ToggleTwiceRestores ==
    hist.n = 2 =>
        /\ IsList(storage)
        /\ Items(storage) = Items(hist.pre)
        /\ storage = hist.pre

\* The second of two toggles of one index has run.
C10_Witness == hist.n = 2


\* C11: for every array x of task records, the empty one included,
\* saveTodoList(x) followed by loadTodoList() returns an array equal to x in
\* length, order and every field, whatever the entry held before the save.
C11_SaveThenLoad ==
    call.pc = "loaded" =>
        call.got = [threw |-> FALSE, kind |-> "array", items |-> call.x]

\* An array of two records, one with a quote in its name, has been saved and
\* loaded.
C11_Witness ==
    /\ call.pc = "loaded"
    /\ Len(call.x) = 2
    /\ call.x[1].name = <<"b", Quote>>
    /\ call.x[2].completed

\* The date a row displays (DD/MM/YYYY) as the number YYYYMMDD.
RowDate(row) ==
    ToNumber(SubSeq(row.date, 7, 10)) * 10000
        + ToNumber(SubSeq(row.date, 4, 5)) * 100
        + ToNumber(SubSeq(row.date, 1, 2))

\* Whether two rows of one container are shown in the reverse of their
\* order in the persisted sequence, with different dates.
Reordered(rows) ==
    /\ Len(rows) = 2
    /\ parseInt(rows[1].dataIndex).v > parseInt(rows[2].dataIndex).v
    /\ rows[1].date # rows[2].date

\* C12: in the today container and in the future container the rows are in
\* ascending date order: of two rows the one shown first has the earlier or
\* the same date, wherever their records are in the persisted sequence.
C12_OpenRowsAscending ==
    \A b \in {"today", "future"} :
        \A k, j \in 1..Len(view[b].rows) :
            k < j => RowDate(view[b].rows[k]) <= RowDate(view[b].rows[j])

\* Two open tasks are shown in the future container in the reverse of their
\* persisted order.
C12_Witness == Reordered(view["future"].rows)

\* C13: in the completed container the rows are in descending date order: of
\* two rows the one shown first has the later or the same date.
C13_CompletedRowsDescending ==
    \A k, j \in 1..Len(view["completed"].rows) :
        k < j => RowDate(view["completed"].rows[k])
                     >= RowDate(view["completed"].rows[j])

\* Two completed tasks are shown in the reverse of their persisted order.
C13_Witness == Reordered(view["completed"].rows)

\* The numbers of the adds whose records are in the persisted sequence.
Alive == { life.born[k] : k \in 1..Len(life.born) }

\* C14: in a single tab deletion is terminal: every persisted record was
\* created by one add, the record of an add that deleteItem has removed is
\* never in the persisted sequence again whatever is added, deleted or
\* toggled afterwards, and each later add creates a record of its own.
C14_DeletionIsTerminal ==
    /\ IsList(storage) => Len(life.born) = Len(Items(storage))
    /\ Alive \cap life.gone = {}
    /\ \A k, j \in 1..Len(life.born) : k # j => life.born[k] # life.born[j]
    /\ \A n \in Alive \cup life.gone : n <= life.count

\* A record was deleted and records added after that are in the sequence,
\* which is full.
C14_Witness ==
    /\ Len(Items(storage)) = MaxTasks
    /\ \E g \in life.gone : \A n \in Alive : n > g

\* Whether name is typed without the blanks around it.
TrimmedOf(name, typed) ==
    /\ Len(name) > 0
    /\ name[1] # " " /\ name[Len(name)] # " "
    /\ \E i \in 1..Len(typed) :
          /\ i + Len(name) - 1 <= Len(typed)
          /\ SubSeq(typed, i, i + Len(name) - 1) = name
          /\ \A k \in 1..Len(typed) :
                (k < i \/ k > i + Len(name) - 1) => typed[k] = " "

\* C16, the step: a successful addItem leaves every record where it was and
\* puts after them one record, open, made of the fields of the form.
C16_Step ==
    LET before == Items(storage)
        after  == Items(storage')
    IN  \A f \in FormInputs :
          (outcome' = Outcome("add", "ok") /\ addItem(f)) =>
            /\ IsList(storage')
            /\ Len(after) = Len(before) + 1
            /\ SubSeq(after, 1, Len(before)) = before
            /\ ~after[Len(after)].completed
            /\ TrimmedOf(after[Len(after)].name, f.name)
            /\ after[Len(after)].date = f.date
            /\ after[Len(after)].priority = f.priority

\* C16, the state: the persisted sequence lists the surviving records in
\* the order of the adds that created them.
C16_CreationOrder ==
    /\ IsList(storage) => Len(life.born) = Len(Items(storage))
    /\ \A k, j \in 1..Len(life.born) : k < j => life.born[k] < life.born[j]

\* C16: a successful addItem appends the new record, with completed false,
\* at the last position and leaves the existing records at their positions;
\* so in a single tab the persisted sequence always lists the surviving
\* records in creation order.
C16_AppendInCreationOrder == [](C16_CreationOrder) /\ [][C16_Step]_vars

\* An add has just put the latest record after a completed one.
C16_Witness ==
    /\ outcome = Outcome("add", "ok")
    /\ Len(life.born) = 2
    /\ life.born[2] = life.count
    /\ Items(storage)[1].completed
    /\ ~Items(storage)[2].completed

\* Whether after is what the handler of flight makes of the array it
\* loaded, and of nothing else.
Wrote(flight, after) ==
    LET base == flight.base
        i    == flight.index.v
    IN  CASE flight.op = "add" ->
               /\ Len(after) = Len(base) + 1
               /\ SubSeq(after, 1, Len(base)) = base
               /\ TrimmedOf(after[Len(after)].name, flight.f.name)
               /\ after[Len(after)].date = flight.f.date
               /\ after[Len(after)].priority = flight.f.priority
               /\ ~after[Len(after)].completed
          [] flight.op = "delete" ->
               /\ Len(after) = Len(base) - 1
               /\ \A k \in 1..Len(after) :
                     after[k] = IF k <= i THEN base[k] ELSE base[k + 1]
          [] flight.op = "toggle" ->
               /\ Len(after) = Len(base)
               /\ \A k \in 1..Len(base) :
                     /\ k # i + 1 => after[k] = base[k]
                     /\ k = i + 1 =>
                          after[k] = [base[k] EXCEPT !.completed = ~base[k].completed]

C15_Step ==
    \A t \in Tabs :
        (inflight[t].pc = "loaded" /\ inflight'[t].pc = "saved") =>
            /\ IsList(storage')
            /\ Wrote(inflight[t], Items(storage'))

\* C15: when two tabs on one store each run a handler and their loads and
\* saves interleave, every save leaves exactly the array its own handler
\* made of what that handler loaded: the later write wins and nothing is
\* merged, so a change the other tab saved between this tab's load and its
\* save is gone.
C15_LaterWriteWins == [][C15_Step]_vars

\* Both tabs added a record to the same loaded array; the one that saved
\* last has overwritten the other's record.
C15_Witness ==
    \E t \in Tabs :
        LET u == 3 - t
        IN  /\ inflight[t].pc = "done" /\ inflight[u].pc = "done"
            /\ inflight[t].op = "add" /\ inflight[u].op = "add"
            /\ inflight[t].overlap
            /\ inflight[t].base = inflight[u].base
            /\ Len(Items(storage)) = Len(inflight[t].base) + 1

\* The step in which tab t's click listener calls deleteItem or
\* toggleComplete with the index of a row of its page: that row must show
\* the record the freshly loaded array holds at the index.
C17_Step ==
    \A t \in Tabs :
        (inflight[t].pc = "idle" /\ inflight'[t].op \in {"delete", "toggle"}) =>
            \A b \in Buckets : \A k \in 1..Len(PageView(t)[b].rows) :
                parseInt(PageView(t)[b].rows[k].dataIndex) = inflight'[t].index
                    => RowShows(PageView(t)[b].rows[k], Items(storage))

\* C17: every delete or toggle dispatched from a rendered row acts on the
\* task the row displays, in each of the tabs sharing the store: when the
\* click on a row with data-index i is handled, the record at position i of
\* the freshly loaded sequence is the one the row was rendered for.
C17_ClickActsOnDisplayedTask == [][C17_Step]_vars

\* Whether a record's name is non-empty without a blank at either end, and
\* its date and priority are non-empty.
WellFormed(item) ==
    /\ Len(item.name) > 0
    /\ item.name[1] # " " /\ item.name[Len(item.name)] # " "
    /\ Len(item.date) > 0
    /\ Len(item.priority) > 0

C18_State ==
    IsList(storage) =>
        \A k \in 1..Len(Items(storage)) : WellFormed(Items(storage)[k])

\* addItem on a name made of blanks only ends like on an empty name: the
\* alert, and the store as it was.
C18_Step ==
    \A f \in FormInputs :
        ( /\ outcome'.op = "add"
          /\ \A k \in 1..Len(f.name) : f.name[k] = " "
          /\ addItem(f) ) =>
            /\ outcome' = Outcome("add", "alert")
            /\ storage' = storage

\* C18: starting from an empty or absent store, every persisted record
\* always has a non-empty name without leading or trailing whitespace, a
\* non-empty date and a non-empty priority; a name of whitespace only is
\* rejected by addItem like an empty name.
C18_RecordsWellFormed == [](C18_State) /\ [][C18_Step]_vars

\* A name typed with blanks around it is persisted without them, beside
\* another record.
C18_Witness ==
    /\ Len(Items(storage)) = 2
    /\ Items(storage)[2].name = <<"b", Quote>>

\* A run of renderTodoList leaves the entry as it found it: the page load,
\* which only renders, leaves the store as it was, an absent entry absent;
\* after addItem, deleteItem and toggleComplete the store is what the
\* handler saved before it rendered, in the handler's order.
C19_Step ==
    LET before == Items(storage)
    IN  /\ (outcome'.op = "load" /\ PageLoad) => storage' = storage
        /\ \A f \in FormInputs :
              (outcome' = Outcome("add", "ok") /\ addItem(f)) =>
                 storage' = saveTodoList(push(before,
                     [name |-> trim(f.name), date |-> f.date,
                      priority |-> f.priority, completed |-> FALSE]))
        /\ \A i \in Indexes :
              Deleted(i) => storage' = saveTodoList(splice(before, i.v))
        /\ \A i \in Indexes :
              Toggled(i) => storage' = saveTodoList(Flip(before, i.v))

\* C19: renderTodoList never writes to storage: the render at page load and
\* every re-render leave the persisted value exactly as it was, and the
\* sorting done for display does not reorder the persisted sequence.
C19_RenderWritesNothing == [][C19_Step]_vars

\* The page was loaded on a store whose two completed records are shown in
\* the reverse of their persisted order.
C19_Witness ==
    /\ outcome = Outcome("load", "ok")
    /\ Reordered(view["completed"].rows)
====
